---- MODULE Spec2Model ----
(***************************************************************************)
(* Model of the dewey-decimal crate.                                       *)
(*                                                                         *)
(* build.rs walks the source classification tree and emits one trie        *)
(* insertion per surviving node; src/lib.rs builds the trie once behind a  *)
(* LazyLock and answers the hierarchy queries from it.                     *)
(*                                                                         *)
(* Strings are sequences of one-character strings; trie keys (Vec<u8>)     *)
(* are sequences of numbers 0..9.  An Option<Class> is a sequence of       *)
(* length 0 or 1.  The trie (trie_rs::map::Trie<u8, Class>) is a function  *)
(* from its keys to the stored Class.                                      *)
(***************************************************************************)
EXTENDS Integers, Sequences, FiniteSets, TLC

VARIABLES
    classes,      \* build.rs: the deserialized source tree (Vec<Class>)
    class_items,  \* build.rs: the emitted insertions, in order
    phase,        \* "build" until build.rs main has run, then "run"
    once,         \* state of the LazyLock guarding CLASSES
    CLASSES,      \* the published trie (meaningful once the lock is complete)
    trie,         \* the TrieBuilder local to make_class_static
    next,         \* index of the next insertion make_class_static executes
    builds,       \* how many times make_class_static has been entered
    pc,           \* per thread: "idle" or "init" (running the initializer)
    observed,     \* every distinct trie a map() call has returned so far
    lastOp,       \* the last completed query ...
    lastCode,     \* ... its argument ...
    result        \* ... and what it returned

vars == <<classes, class_items, phase, once, CLASSES, trie, next, builds,
          pc, observed, lastOp, lastCode, result>>

-----------------------------------------------------------------------------
(* Bounds and program constants *)

MaxKids == 1

NumThreads == 2

MaxCodeLen == 4

NumDigits == 10

Threads == 1..NumThreads

-----------------------------------------------------------------------------
(* Characters and strings *)

DigitChars == <<"0", "1", "2", "3", "4", "5", "6", "7", "8", "9">>

IsDigit(c) == \E i \in 1..NumDigits : DigitChars[i] = c

\* c.to_string().parse::<u8>() on a one-character string; callers unwrap it
parse_u8(c) == (CHOOSE i \in 1..NumDigits : DigitChars[i] = c) - 1

RECURSIVE trim_end_matches(_)
trim_end_matches(s) ==
    IF s # <<>> /\ s[Len(s)] = "X"
    THEN trim_end_matches(SubSeq(s, 1, Len(s) - 1))
    ELSE s

RECURSIVE trim_start_matches(_)
trim_start_matches(s) ==
    IF s # <<>> /\ s[1] = "X"
    THEN trim_start_matches(Tail(s))
    ELSE s

\* str::trim_matches strips the pattern from both ends
trim_matches(s) == trim_start_matches(trim_end_matches(s))

-----------------------------------------------------------------------------
(* build.rs *)

Leaf(short) ==
    [kind |-> "Leaf", name |-> short, short |-> short, children |-> <<>>]

Node(short, children) ==
    [kind |-> "Node", name |-> short, short |-> short, children |-> children]

\* the struct the generated code stores in the trie
Class(code, name, has_children) ==
    [code |-> code, name |-> name, has_children |-> has_children]

RECURSIVE generate_class(_, _)
RECURSIVE generate_class_keep_going(_, _)
RECURSIVE generate_class_short4(_, _)
RECURSIVE generate_children(_, _)

\* for class in children { generate_class(output, *class); }
generate_children(output, children) ==
    IF children = <<>>
    THEN output
    ELSE generate_children(generate_class(output, Head(children)), Tail(children))

\* variant: a dropped node's children are still walked
generate_class_keep_going(output, class) ==
    LET trimmed_code == trim_end_matches(class.short)
        pushed == IF Len(trimmed_code) > MaxCodeLen
                  THEN output
                  ELSE Append(output, Class(trimmed_code, class.name, class.kind = "Node"))
    IN  IF class.kind = "Node"
        THEN generate_children(pushed, class.children)
        ELSE pushed

\* variant: the cutoff drops codes of the maximum length too
generate_class_short4(output, class) ==
    LET trimmed_code == trim_end_matches(class.short)
    IN  IF Len(trimmed_code) >= MaxCodeLen
        THEN output
        ELSE IF class.kind = "Node"
             THEN generate_children(
                      Append(output, Class(trimmed_code, class.name, TRUE)),
                      class.children)
             ELSE Append(output, Class(trimmed_code, class.name, FALSE))

generate_class(output, class) ==
    LET trimmed_code == trim_end_matches(class.short)
    IN  IF Len(trimmed_code) > MaxCodeLen
        THEN output
        ELSE IF class.kind = "Node"
             THEN generate_children(
                      Append(output, Class(trimmed_code, class.name, TRUE)),
                      class.children)
             ELSE Append(output, Class(trimmed_code, class.name, FALSE))

-----------------------------------------------------------------------------
(* trie_rs as the crate uses it *)

EmptyTrie == [k \in {} |-> 0]

\* code.chars().map(|c| c.to_string().parse::<u8>().unwrap()).collect()
KeyOfCode(code) == [i \in 1..Len(code) |-> parse_u8(code[i])]

\* TrieBuilder::insert: a later insertion at the same key replaces the value
insert(t, key, value) ==
    [k \in DOMAIN t \cup {key} |-> IF k = key THEN value ELSE t[k]]

IsPrefix(p, k) == Len(p) <= Len(k) /\ SubSeq(k, 1, Len(p)) = p

\* Trie::exact_match(..).cloned()
exact_match(t, label) == IF label \in DOMAIN t THEN <<t[label]>> ELSE <<>>

RECURSIVE predictive_search(_, _)
RECURSIVE search_from(_, _, _)

\* the subtrees of label under the child labels d, d+1, ..., in that order
search_from(t, label, d) ==
    IF d >= NumDigits
    THEN <<>>
    ELSE (IF \E k \in DOMAIN t : IsPrefix(Append(label, d), k)
          THEN predictive_search(t, Append(label, d))
          ELSE <<>>)
         \o search_from(t, label, d + 1)

\* Trie::predictive_search: the entry at label, then every entry below it
predictive_search(t, label) == exact_match(t, label) \o search_from(t, label, 0)

-----------------------------------------------------------------------------
(* src/lib.rs: the queries, evaluated on the trie map() returns *)

Ok(out) == [status |-> "ok", out |-> out]

\* an unwrap() on None or Err aborts the call
Panic == [status |-> "panic", out |-> <<>>]

\* Dewey::map: a clone of the published trie
map == CLASSES

\* Dewey::as_label; ok is FALSE when some parse::<u8>().unwrap() panics
as_label(code) ==
    LET trimmed == trim_matches(code)
    IN  [ok    |-> \A i \in 1..Len(trimmed) : IsDigit(trimmed[i]),
         label |-> [i \in 1..Len(trimmed) |->
                       IF IsDigit(trimmed[i]) THEN parse_u8(trimmed[i]) ELSE 0]]

get_class(code) ==
    LET l == as_label(code)
    IN  IF l.ok THEN Ok(exact_match(map, l.label)) ELSE Panic

\* variant: the entry at the prefix itself is left out
get_matches_below(code) ==
    LET l == as_label(code)
    IN  IF l.ok THEN Ok(search_from(map, l.label, 0)) ELSE Panic

get_matches(code) ==
    LET l == as_label(code)
    IN  IF l.ok THEN Ok(predictive_search(map, l.label)) ELSE Panic

\* variant: the length is compared with the trimmed code's
get_direct_children_trimmed(code) ==
    LET m == get_matches(code)
        keep(c) == Len(c.code) = Len(trim_matches(code)) + 1
    IN  IF m.status = "ok" THEN Ok(SelectSeq(m.out, keep)) ELSE m

get_direct_children(code) ==
    LET m == get_matches(code)
        keep(c) == Len(c.code) = Len(code) + 1
    IN  IF m.status = "ok" THEN Ok(SelectSeq(m.out, keep)) ELSE m

get_all_children(code) ==
    LET m == get_matches(code)
        keep(c) == c.code # code
    IN  IF m.status = "ok" THEN Ok(SelectSeq(m.out, keep)) ELSE m

\* variant: the placeholders are stripped before the last character is dropped
get_parent_trimmed(code) ==
    LET t == trim_matches(code)
    IN  IF Len(t) > 1
        THEN get_class(SubSeq(t, 1, Len(t) - 1))
        ELSE Ok(<<>>)

get_parent(code) ==
    IF Len(code) > 1
    THEN get_class(SubSeq(code, 1, Len(code) - 1))
    ELSE Ok(<<>>)

\* variant: a missing top-level class is skipped
categories_skip_missing ==
    LET found(i) == get_class(<<DigitChars[i]>>).out
        RECURSIVE collect(_)
        collect(i) == IF i > NumDigits THEN <<>> ELSE found(i) \o collect(i + 1)
    IN  Ok(collect(1))

categories ==
    LET found(i) == get_class(<<DigitChars[i]>>).out
    IN  IF \E i \in 1..NumDigits : found(i) = <<>>
        THEN Panic
        ELSE Ok([i \in 1..NumDigits |-> found(i)[1]])

-----------------------------------------------------------------------------
(* The inputs: source trees and query arguments *)

SeqsUpTo(S, n) == UNION {[1..m -> S] : m \in 0..n}

\* codes of the second level: a plain one and one longer than the cutoff
KidCodes ==
    { <<"0", "1">>, <<"0", "1", "2", "3", "4">> }

\* codes of the third level: one that sorts before "01" and is shorter than
\* the cutoff, one that trims to "01", and one of length 5 that trims to
\* length 4
GrandCodes ==
    { <<"0", "0">>, <<"0", "1", "X">>, <<"0", "1", "2", "3", "X">> }

KidTrees ==
    {Leaf(c) : c \in KidCodes}
    \cup {Node(c, <<>>) : c \in KidCodes}
    \cup {Node(c, <<Leaf(g)>>) : c \in KidCodes, g \in GrandCodes}

\* how many of the top-level classes "0XX" .. "9XX" the source data has
TopCounts == {NumDigits - 1, NumDigits}

\* the top-level classes in order, the first one carrying the subtree kids
Forest(n, kids) ==
    [i \in 1..n |-> Node(<<DigitChars[i], "X", "X">>, IF i = 1 THEN kids ELSE <<>>)]

Forests == {Forest(n, kids) : n \in TopCounts, kids \in SeqsUpTo(KidTrees, MaxKids)}

QueryCodes ==
    { <<"X">>, <<"0">>, <<"9">>, <<"0", "X", "X">>, <<"0", "1">>,
      <<"0", "1", "X">>, <<"0", "1", "2", "3">>, <<"0", "1", "2", "3", "4">>,
      <<"0", "A">> }

-----------------------------------------------------------------------------
(* The state machine *)

Init ==
    /\ classes \in Forests
    /\ class_items = <<>>
    /\ phase = "build"
    /\ once = "incomplete"
    /\ CLASSES = EmptyTrie
    /\ trie = EmptyTrie
    /\ next = 1
    /\ builds = 0
    /\ pc = [t \in Threads |-> "idle"]
    /\ observed = {}
    /\ lastOp = "none"
    /\ lastCode = <<>>
    /\ result = Ok(<<>>)

\* build.rs main: every top-level class is walked, then classes.rs is written
main ==
    /\ phase = "build"
    /\ class_items' = generate_children(<<>>, classes)
    /\ phase' = "run"
    /\ UNCHANGED <<classes, once, CLASSES, trie, next, builds, pc, observed,
                   lastOp, lastCode, result>>

\* variant: a caller arriving while the initializer runs starts it again
LazyForceRacy(t) ==
    /\ phase = "run"
    /\ pc[t] = "idle"
    /\ once \in {"incomplete", "running"}
    /\ once' = "running"
    /\ pc' = [pc EXCEPT ![t] = "init"]
    /\ trie' = EmptyTrie
    /\ next' = 1
    /\ builds' = builds + 1
    /\ UNCHANGED <<classes, class_items, phase, CLASSES, observed,
                   lastOp, lastCode, result>>

\* LazyLock::force by the first caller of map(): it alone becomes the
\* initializer and enters make_class_static; callers arriving while the lock
\* is running wait for it
LazyForce(t) ==
    /\ phase = "run"
    /\ pc[t] = "idle"
    /\ once = "incomplete"
    /\ once' = "running"
    /\ pc' = [pc EXCEPT ![t] = "init"]
    /\ trie' = EmptyTrie
    /\ next' = 1
    /\ builds' = builds + 1
    /\ UNCHANGED <<classes, class_items, phase, CLASSES, observed,
                   lastOp, lastCode, result>>

\* make_class_static: one generated block, inserting one class
InsertItem(t) ==
    /\ pc[t] = "init"
    /\ next <= Len(class_items)
    /\ trie' = insert(trie, KeyOfCode(class_items[next].code), class_items[next])
    /\ next' = next + 1
    /\ UNCHANGED <<classes, class_items, phase, once, CLASSES, builds, pc, observed,
                   lastOp, lastCode, result>>

\* make_class_static returns trie.build(), which consumes the builder; the
\* lock stores the trie and completes
BuildTrie(t) ==
    /\ pc[t] = "init"
    /\ next > Len(class_items)
    /\ CLASSES' = trie
    /\ once' = "complete"
    /\ trie' = EmptyTrie
    /\ pc' = [pc EXCEPT ![t] = "idle"]
    /\ UNCHANGED <<classes, class_items, phase, next, builds, observed,
                   lastOp, lastCode, result>>

\* a query that reads the trie, made by any thread that is not running the
\* initializer: map() returns once the lock is complete
Answer(op, code, r) ==
    /\ \E t \in Threads : pc[t] = "idle"
    /\ once = "complete"
    /\ observed' = observed \cup {map}
    /\ lastOp' = op
    /\ lastCode' = code
    /\ result' = r
    /\ UNCHANGED <<classes, class_items, phase, once, CLASSES, trie, next,
                   builds, pc>>

GetClass == \E code \in QueryCodes : Answer("get_class", code, get_class(code))

GetMatches == \E code \in QueryCodes : Answer("get_matches", code, get_matches(code))

GetDirectChildren ==
    \E code \in QueryCodes :
        Answer("get_direct_children", code, get_direct_children(code))

GetAllChildren ==
    \E code \in QueryCodes :
        Answer("get_all_children", code, get_all_children(code))

\* get_parent of a code longer than one character goes through get_class
GetParent ==
    \E code \in QueryCodes :
        /\ Len(code) > 1
        /\ Answer("get_parent", code, get_parent(code))

\* get_parent of a shorter code returns None without touching the trie
GetParentShort ==
    \E code \in QueryCodes :
        /\ Len(code) <= 1
        /\ phase = "run"
        /\ \E t \in Threads : pc[t] = "idle"
        /\ lastOp' = "get_parent"
        /\ lastCode' = code
        /\ result' = get_parent(code)
        /\ UNCHANGED <<classes, class_items, phase, once, CLASSES, trie, next,
                       builds, pc, observed>>

Categories == Answer("categories", <<>>, categories)

Next ==
    \/ main
    \/ \E t \in Threads : LazyForce(t)
    \/ \E t \in Threads : InsertItem(t)
    \/ \E t \in Threads : BuildTrie(t)
    \/ GetClass
    \/ GetMatches
    \/ GetDirectChildren
    \/ GetAllChildren
    \/ GetParent
    \/ GetParentShort
    \/ Categories

Spec == Init /\ [][Next]_vars

-----------------------------------------------------------------------------
(* Vocabulary of the properties, defined apart from the operators above *)

Min(a, b) == IF a < b THEN a ELSE b

\* lexicographic order on sequences of numbers, a proper prefix first
LexLess(a, b) ==
    \/ Len(a) < Len(b) /\ \A j \in 1..Len(a) : a[j] = b[j]
    \/ \E i \in 1..Min(Len(a), Len(b)) :
           /\ a[i] < b[i]
           /\ \A j \in 1..(i - 1) : a[j] = b[j]

\* the elements of a finite set of sequences in ascending lexicographic order
SortedSeq(S) ==
    [i \in 1..Cardinality(S) |->
        CHOOSE x \in S : Cardinality({y \in S : LexLess(y, x)}) = i - 1]

\* a code without its trailing placeholders
Normalized(code) ==
    LET keep == {i \in 1..Len(code) : code[i] # "X"}
        last == IF keep = {} THEN 0 ELSE CHOOSE i \in keep : \A j \in keep : j <= i
    IN  SubSeq(code, 1, last)

AllDigits(code) == \A i \in 1..Len(code) : code[i] \in {DigitChars[d] : d \in 1..NumDigits}

\* normalization succeeds: only digits are left once the trailing placeholders are gone
NormalizesOk(code) == AllDigits(Normalized(code))

DigitKey(code) ==
    [i \in 1..Len(code) |-> CHOOSE d \in 0..(NumDigits - 1) : DigitChars[d + 1] = code[i]]

StartsWith(s, p) == Len(p) <= Len(s) /\ \A i \in 1..Len(p) : s[i] = p[i]

\* the source tree by position: a path is the sequence of child indices
RECURSIVE PathsBelow(_, _)
PathsBelow(children, prefix) ==
    UNION { {Append(prefix, i)} \cup PathsBelow(children[i].children, Append(prefix, i)) :
            i \in 1..Len(children) }

RECURSIVE NodeAt(_, _)
NodeAt(children, path) ==
    IF Len(path) = 1
    THEN children[path[1]]
    ELSE NodeAt(children[path[1]].children, Tail(path))

Paths == PathsBelow(classes, <<>>)

\* a node survives when neither it nor an ancestor normalizes to more than
\* MaxCodeLen characters
Survives(path) ==
    \A n \in 1..Len(path) :
        Len(Normalized(NodeAt(classes, SubSeq(path, 1, n)).short)) <= MaxCodeLen

SurvivingPaths == {p \in Paths : Survives(p)}

SurvivingCodes == {Normalized(NodeAt(classes, p).short) : p \in SurvivingPaths}

RecordOf(node) == Class(Normalized(node.short), node.name, node.kind = "Node")

IndexedRecords == {CLASSES[k] : k \in DOMAIN CLASSES}

\* the indexed records whose code starts with the normalized code, by ascending key
MatchesOf(code) ==
    LET keys == {k \in DOMAIN CLASSES : StartsWith(CLASSES[k].code, Normalized(code))}
        order == SortedSeq(keys)
    IN  [i \in 1..Cardinality(keys) |-> CLASSES[order[i]]]

\* what the insertions of class_items amount to when none is lost
FullIndex ==
    LET keys == {DigitKey(class_items[i].code) : i \in 1..Len(class_items)}
        last(k) == CHOOSE i \in 1..Len(class_items) :
                       /\ DigitKey(class_items[i].code) = k
                       /\ \A j \in (i + 1)..Len(class_items) :
                              DigitKey(class_items[j].code) # k
    IN  [k \in keys |-> class_items[last(k)]]

QueryOps == {"get_class", "get_matches", "get_direct_children", "get_all_children",
             "get_parent"}

-----------------------------------------------------------------------------
(* The properties *)

\* C1: get_class of the normalized code of a surviving source node returns a
\* record with exactly that code; get_class of a digit code that no surviving
\* node normalizes to returns None and does not fail.
C1_GetClassFindsSurvivors ==
    lastOp = "get_class" =>
        /\ lastCode \in SurvivingCodes =>
              /\ result.status = "ok"
              /\ Len(result.out) = 1
              /\ result.out[1].code = lastCode
        /\ (AllDigits(lastCode) /\ lastCode \notin SurvivingCodes) => result = Ok(<<>>)

\* a get_class of a surviving code of the maximum length has returned
C1_Witness ==
    /\ lastOp = "get_class"
    /\ lastCode \in SurvivingCodes
    /\ Len(lastCode) = MaxCodeLen
    /\ result.out # <<>>

C2_MatchesState ==
    (lastOp = "get_matches" /\ NormalizesOk(lastCode)) =>
        /\ result.status = "ok"
        /\ result.out = MatchesOf(lastCode)

C2_MatchesStep ==
    (lastOp = "get_matches" /\ lastOp' = "get_matches" /\ lastCode' = lastCode)
        => result' = result

\* C2: for a code that normalizes, get_matches returns exactly the indexed
\* records whose code starts with the normalized code (the record at the
\* normalized code itself included), in ascending key order, and a repeated
\* call with the same code returns the same sequence.
C2_GetMatchesPrefixOrdered == [](C2_MatchesState) /\ [][C2_MatchesStep]_vars

\* a get_matches has returned the class itself followed by at least two others
C2_Witness ==
    /\ lastOp = "get_matches"
    /\ NormalizesOk(lastCode)
    /\ Len(result.out) >= 3
    /\ result.out[1].code = Normalized(lastCode)

\* C3: every record get_all_children returns has a code that starts with the
\* normalized argument and differs from it (the class is never among its own
\* descendants), also for arguments with trailing placeholders.
C3_AllChildrenExcludeSelf ==
    (lastOp = "get_all_children" /\ NormalizesOk(lastCode) /\ result.status = "ok") =>
        \A i \in 1..Len(result.out) :
            /\ StartsWith(result.out[i].code, Normalized(lastCode))
            /\ result.out[i].code # Normalized(lastCode)

\* C4: get_parent of a code longer than one character whose truncation (the
\* code without its last character) is the code of an indexed record returns
\* that record; get_parent of a code of at most one character returns None.
C4_GetParentTruncates ==
    lastOp = "get_parent" =>
        /\ (/\ Len(lastCode) > 1
            /\ \E r \in IndexedRecords : r.code = SubSeq(lastCode, 1, Len(lastCode) - 1))
           => /\ result.status = "ok"
              /\ Len(result.out) = 1
              /\ result.out[1].code = SubSeq(lastCode, 1, Len(lastCode) - 1)
        /\ Len(lastCode) <= 1 => result = Ok(<<>>)

\* a get_parent of a code ending in a placeholder has returned the class of
\* the code without it
C4_Witness ==
    /\ lastOp = "get_parent"
    /\ Len(lastCode) > 1
    /\ lastCode[Len(lastCode)] = "X"
    /\ result.out # <<>>
    /\ result.out[1].code = SubSeq(lastCode, 1, Len(lastCode) - 1)

\* C5: for a code that normalizes, get_direct_children returns the records of
\* get_matches, in the same order, whose code is exactly one character longer
\* than the argument as the caller wrote it.
C5_DirectChildrenRawLength ==
    (lastOp = "get_direct_children" /\ NormalizesOk(lastCode)) =>
        /\ result.status = "ok"
        /\ LET oneLonger(c) == Len(c.code) = Len(lastCode) + 1
           IN  result.out = SelectSeq(MatchesOf(lastCode), oneLonger)

\* a get_direct_children of a code with trailing placeholders has returned a record
C5_Witness ==
    /\ lastOp = "get_direct_children"
    /\ Normalized(lastCode) # lastCode
    /\ result.out # <<>>

\* C6: a query whose argument still holds a non-digit once its trailing
\* placeholders are stripped returns the failure InvalidCodeFormat; a query
\* with any other argument does not fail.
C6_InvalidCodeIsTypedFailure ==
    lastOp \in QueryOps =>
        IF NormalizesOk(lastCode)
        THEN result.status = "ok"
        ELSE result.status = "InvalidCodeFormat"

C7_InitState ==
    /\ builds <= 1
    /\ once = "complete" => (builds = 1 /\ CLASSES = FullIndex)
    /\ observed \subseteq {FullIndex}
    /\ observed # {} => once = "complete"

C7_InitStep ==
    /\ once = "running" => once' \in {"running", "complete"}
    /\ once = "complete" => (once' = "complete" /\ CLASSES' = CLASSES)

\* C7: whatever the interleaving of the threads' first queries, the trie is
\* built once (incomplete -> running -> complete, never back), no query reads
\* a trie that is still being filled, and every query sees the same complete trie.
C7_BuiltOnce == [](C7_InitState) /\ [][C7_InitStep]_vars

\* the trie is published and a query has read it
C7_Witness ==
    /\ once = "complete"
    /\ observed # {}
    /\ Cardinality(DOMAIN CLASSES) > NumDigits

\* C8: when categories returns, it returns the NumDigits records with the
\* codes "0" .. "9" in that order, each the indexed record of that code; when
\* a top-level code is missing from the index it returns no list at all.
C8_CategoriesAllTen ==
    lastOp = "categories" =>
        LET missing == {i \in 1..NumDigits :
                            ~\E r \in IndexedRecords : r.code = <<DigitChars[i]>>}
        IN  /\ missing # {} => result.status = "panic"
            /\ missing = {} =>
                  /\ result.status = "ok"
                  /\ Len(result.out) = NumDigits
                  /\ \A i \in 1..NumDigits :
                        /\ result.out[i].code = <<DigitChars[i]>>
                        /\ result.out[i] = CLASSES[<<i - 1>>]

\* categories has returned its list
C8_Witness ==
    /\ lastOp = "categories"
    /\ result.status = "ok"
    /\ Len(result.out) = NumDigits

\* C9: every indexed record has a code of 1 to MaxCodeLen digits that spells
\* its key, and no two surviving source nodes share a key of the built index.
C9_RecordsWellFormedAndUnique ==
    once = "complete" =>
        /\ \A k \in DOMAIN CLASSES :
              /\ AllDigits(CLASSES[k].code)
              /\ Len(CLASSES[k].code) \in 1..MaxCodeLen
              /\ DigitKey(CLASSES[k].code) = k
        /\ Cardinality(DOMAIN CLASSES) = Cardinality(SurvivingPaths)

\* C10: the emitted list is the records of the surviving nodes, one each, in
\* pre-order; a node whose normalized code is longer than MaxCodeLen is left
\* out together with everything below it; has_children is TRUE for a Node
\* and FALSE for a Leaf.
C10_PreorderWithCutoff ==
    phase = "run" =>
        LET order == SortedSeq(SurvivingPaths)
        IN  class_items =
                [i \in 1..Cardinality(SurvivingPaths) |-> RecordOf(NodeAt(classes, order[i]))]

\* the walk has run over a tree in which a dropped node has a child whose own
\* code is within the cutoff
C10_Witness ==
    /\ phase = "run"
    /\ Len(class_items) >= NumDigits
    /\ \E p \in Paths :
          /\ ~Survives(p)
          /\ Len(Normalized(NodeAt(classes, p).short)) <= MaxCodeLen

====
